---- MODULE Spec2Model ----
(***************************************************************************)
(* Streamflow Explorer (src/app.py): a Dash page whose module body loads   *)
(* two pickles from Google Drive, derives the NSE category column, builds  *)
(* the map figure and starts the server; the single callback update_plot   *)
(* renders a matplotlib chart for the clicked gauge through the pyplot     *)
(* state machine.                                                          *)
(*                                                                         *)
(* Scores are modelled in hundredths (0.5 is 50); a score is a tagged      *)
(* record so that NaN, for which every comparison is false, is an input.   *)
(* Python values of different types are tagged records for the same        *)
(* reason: None is [py |-> "None"], a flow value is [num |-> n] or         *)
(* [str |-> s].                                                            *)
(***************************************************************************)
EXTENDS Integers, Sequences, FiniteSets, TLC

VARIABLES
    remote,      \* what Google Drive answers for each file id (the environment)
    main,        \* position of the module body: load_merged .. serving, or crashed
    exc,         \* the exception that ended the module body, or NoExc
    gets,        \* number of HTTP GETs issued per file id
    merged_df,   \* the station table (global), None before it is loaded
    results,     \* the Results Store (global), None before it is loaded
    fig,         \* the map figure (global), None before it is built
    pc,          \* per worker thread: position inside update_plot
    clickData,   \* per worker thread: the argument of the running/finished call
    gauge_id,    \* per worker thread: local gauge_id
    ds,          \* per worker thread: local ds
    df,          \* per worker thread: local df
    fig_,        \* per worker thread: local fig_ (a figure number)
    buf,         \* per worker thread: local buf (the PNG bytes written)
    ret,         \* per worker thread: what the call returned or raised
    Gcf          \* pyplot's figure registry: the open figures, active one last

vars == <<remote, main, exc, gets, merged_df, results, fig,
          pc, clickData, gauge_id, ds, df, fig_, buf, ret, Gcf>>

globals == <<remote, main, exc, gets, merged_df, results, fig>>
locals == <<pc, clickData, gauge_id, ds, df, fig_, buf, ret>>

----------------------------------------------------------------------------
(* Bounds *)

MaxRows == 2      \* rows of the station table
MaxDates == 2     \* length of the date axis of a daily dataset
MaxSteps == 2     \* length of the time_step axis of a daily dataset
MaxFigs == 2      \* open pyplot figures (leaked ones included)

----------------------------------------------------------------------------
(* Python values *)

None == [py |-> "None"]
NoExc == "NoExc"

Num(n) == [num |-> n]
Str(s) == [str |-> s]
IsNum(v) == DOMAIN v = {"num"}
IsStr(v) == DOMAIN v = {"str"}

NaN == [kind |-> "nan"]
Score(n) == [kind |-> "num", v |-> n]

RECURSIVE SeqSum(_)
SeqSum(s) == IF s = <<>> THEN 0 ELSE Head(s) + SeqSum(Tail(s))

\* The rows of a prepared table that carry the given label, in table order.
RECURSIVE SelectRows(_, _)
SelectRows(rows, label) ==
    IF rows = <<>> THEN <<>>
    ELSE IF Head(rows).NSE = label
         THEN <<Head(rows)>> \o SelectRows(Tail(rows), label)
         ELSE SelectRows(Tail(rows), label)

----------------------------------------------------------------------------
(* Remote Fetcher: download_pickle_from_gdrive *)

MERGED_DF_FILE_ID == "15yUqZt8pRJsGbSMrrbzH8Sb2Uuvb6Qic"
RESULTS_FILE_ID == "19lQfRwfSkouvhMfq9ZLF3Wtxc4Gnfw_Y"

\* A response is [status, content]; content is [pickle |-> object] when the
\* bytes are a pickle of object and [bytes |-> body] when they are not.
\* A GET that cannot connect is [status |-> 0].
Pickled(obj) == [pickle |-> obj]
Garbage(body) == [bytes |-> body]

\* Bodies that are no pickle: the empty body, an HTML page, a GLOBAL opcode
\* naming an attribute that does not exist, an INT opcode with no digits.
EmptyBody == ""
HtmlBody == "<!DOCTYPE html>"
GlobalBody == "cos\nsystemx\n."
IntBody == "Iabc\n."
Response(status, content) == [status |-> status, content |-> content]

\* requests.get: raises ConnectionError when no response arrives.
RequestsGetRaises(resp) == resp.status = 0

\* response.raise_for_status(): HTTPError for 4xx and 5xx.
RaiseForStatusRaises(resp) == resp.status >= 400 /\ resp.status < 600

\* pickle.load(io.BytesIO(response.content)) raises on bytes that are no
\* pickle.
PickleLoadRaises(resp) == "pickle" \notin DOMAIN resp.content

\* The exception pickle.load raises depends on the bytes: EOFError when it
\* runs out of input, AttributeError for a global that cannot be found,
\* ValueError for an INT that is no number, UnpicklingError for an invalid
\* load key.
PickleLoadError(body) ==
    CASE body = EmptyBody -> "EOFError"
      [] body = GlobalBody -> "AttributeError"
      [] body = IntBody -> "ValueError"
      [] OTHER -> "UnpicklingError"

\* The outcome of download_pickle_from_gdrive(file_id): [ok, value] or [ok, exc].
download_pickle_from_gdrive(resp) ==
    IF RequestsGetRaises(resp) THEN [ok |-> FALSE, exc |-> "ConnectionError"]
    ELSE IF RaiseForStatusRaises(resp) THEN [ok |-> FALSE, exc |-> "HTTPError"]
    ELSE IF PickleLoadRaises(resp)
         THEN [ok |-> FALSE, exc |-> PickleLoadError(resp.content.bytes)]
    ELSE [ok |-> TRUE, value |-> resp.content.pickle]

----------------------------------------------------------------------------
(* Dataset Preparation: the NSE column *)

NSE_0_5 == 50
NSE_0_7 == 70
NSE_0_8 == 80

NotSatisfactory == "Not Satisfactory: NSE < 0.5"
Satisfactory == "Satisfactory: NSE = 0.5-0.7"
Good == "Good: NSE = 0.7-0.8"
VeryGood == "Very Good: NSE > 0.8"

\* Float comparisons: false whenever the score is NaN.
Gt(s, t) == s.kind = "num" /\ s.v > t
Le(s, t) == s.kind = "num" /\ s.v <= t

\* Mutant: the lower bound of the Satisfactory mask made inclusive.
MaskSatisfactoryInclusive(s) == s.kind = "num" /\ s.v >= NSE_0_5 /\ Le(s, NSE_0_7)

\* The three .loc masks of lines 30-32, row-wise.
MaskSatisfactory(s) == Gt(s, NSE_0_5) /\ Le(s, NSE_0_7)
MaskGood(s) == Gt(s, NSE_0_7) /\ Le(s, NSE_0_8)
MaskVeryGood(s) == Gt(s, NSE_0_8)

\* The label of one row after the default assignment and the three
\* overwrites, applied in source order.
Category(s) ==
    LET l0 == NotSatisfactory
        l1 == IF MaskSatisfactory(s) THEN Satisfactory ELSE l0
        l2 == IF MaskGood(s) THEN Good ELSE l1
        l3 == IF MaskVeryGood(s) THEN VeryGood ELSE l2
    IN l3

\* merged_df after lines 29-32: every row gains the NSE field; rows keep
\* their identity and order.
AddNSE(table) ==
    [i \in 1..Len(table) |->
        [gauge_id |-> table[i].gauge_id,
         casr_daymet_era5_NSE |-> table[i].casr_daymet_era5_NSE,
         NSE |-> Category(table[i].casr_daymet_era5_NSE)]]

----------------------------------------------------------------------------
(* Map View Builder: px.scatter_mapbox *)

\* Mutant: one key of the colour map spelled differently from the label.
color_discrete_map_misspelled ==
    { <<"Not Satisfactory: NSE < 0.5", "red">>,
      <<"Satisfactory: NSE = 0.5-0.7", "yellow">>,
      <<"Good: NSE = 0.7 - 0.8", "lightgreen">>,
      <<"Very Good: NSE > 0.8", "green">> }

\* color_discrete_map of lines 44-49, as a set of <<label, colour>> pairs.
color_discrete_map ==
    { <<"Not Satisfactory: NSE < 0.5", "red">>,
      <<"Satisfactory: NSE = 0.5-0.7", "yellow">>,
      <<"Good: NSE = 0.7-0.8", "lightgreen">>,
      <<"Very Good: NSE > 0.8", "green">> }

\* plotly express falls back to its default colour sequence for a label the
\* map does not hold; the first entry of that sequence is "#636efa".
DefaultColor == "#636efa"

TraceColor(label) ==
    IF \E p \in color_discrete_map : p[1] = label
    THEN (CHOOSE p \in color_discrete_map : p[1] = label)[2]
    ELSE DefaultColor

\* The distinct labels of the table in order of first appearance: plotly
\* express makes one trace per label.
RECURSIVE LabelsInOrder(_, _)
LabelsInOrder(rows, seen) ==
    IF rows = <<>> THEN <<>>
    ELSE IF Head(rows).NSE \in seen
         THEN LabelsInOrder(Tail(rows), seen)
         ELSE <<Head(rows).NSE>> \o LabelsInOrder(Tail(rows), seen \cup {Head(rows).NSE})

\* One trace: the rows of that label, their hover customdata
\* (gauge_id, casr_daymet_era5_NSE) and the marker colour.
Trace(table, label) ==
    LET rows == SelectRows(table, label)
    IN [name |-> label,
        color |-> TraceColor(label),
        customdata |-> [i \in 1..Len(rows) |->
                          <<rows[i].gauge_id, rows[i].casr_daymet_era5_NSE>>]]

scatter_mapbox(table) ==
    LET labels == LabelsInOrder(table, {})
    IN [data |-> [k \in 1..Len(labels) |-> Trace(table, labels[k])]]

PointCount(figure) ==
    SeqSum([k \in 1..Len(figure.data) |-> Len(figure.data[k].customdata)])

----------------------------------------------------------------------------
(* Click events *)

EmptyDict == [py |-> "dict"]

\* clickData as Dash delivers it: {'points': [point, ...]}.
Click(points) == [points |-> points]

\* A point of the map trace carries the hover customdata (gauge_id, score).
Point(gid, score) == [customdata |-> <<gid, score>>]

\* A point without customdata (a trace that was built without hover_data).
BarePoint == [curveNumber |-> 0]

\* Mutant: `if clickData is None` in place of `if not clickData`.
FalsyNoneOnly(c) == c = None

\* `not clickData`: None and the empty dict are falsy.
Falsy(c) == c \in {None, EmptyDict}

\* Line 98: clickData['points'][0]['customdata'][0], outside the try block.
ExtractGaugeId(c) ==
    IF "points" \notin DOMAIN c THEN [ok |-> FALSE, exc |-> "KeyError"]
    ELSE IF Len(c.points) = 0 THEN [ok |-> FALSE, exc |-> "IndexError"]
    ELSE IF "customdata" \notin DOMAIN c.points[1] THEN [ok |-> FALSE, exc |-> "KeyError"]
    ELSE IF Len(c.points[1].customdata) = 0 THEN [ok |-> FALSE, exc |-> "IndexError"]
    ELSE [ok |-> TRUE, value |-> c.points[1].customdata[1]]

----------------------------------------------------------------------------
(* UI fragments *)

Div(text) == [tag |-> "Div", children |-> text]
Img(src) == [tag |-> "Img", src |-> src]
Raised(e) == [tag |-> "raise", exc |-> e]

Placeholder == Div(<<"Click a gauge on the map to view the streamflow.">>)

\* Mutant: a generic error text that names neither the gauge nor the failure.
ErrorFragmentGeneric(gid, msg) == Div(<<"Error loading streamflow">>)

\* f"Error loading streamflow for gauge {gauge_id}: {e}"
ErrorFragment(gid, msg) ==
    Div(<<"Error loading streamflow for gauge ", gid, ": ">> \o msg)

\* str(KeyError(key)) is repr(key).
KeyErrorText(key) == <<"'", key, "'">>
IndexErrorText(axis) == <<"index -1 is out of bounds for axis ", axis, " with size 0">>
ScalarValuesText == <<"If using all scalar values, you must pass an index">>
CategoryTypeText == <<"'value' must be an instance of str or bytes, not a float">>
FloatConversionText == <<"could not convert string to float: 'n/a'">>

----------------------------------------------------------------------------
(* Results Store: results[gauge_id]['1D']['xr'] *)

\* A daily dataset over (date, time_step): date is the date coordinate,
\* time_step the size of the time_step dimension, and each flow variable a
\* matrix indexed [date][time_step].  A dataset over time_step alone has
\* dims = <<"time_step">>, flow vectors indexed [time_step] and date as a
\* coordinate along time_step.
HasVar(d, name) == name \in DOMAIN d

\* DataArray.isel(time_step=-1): IndexError on an empty time_step axis;
\* otherwise the last step of every date, the date coordinate kept.
IselRaises(d) == d.time_step = 0

\* Mutant: isel(time_step=0), the first step in place of the last.
IselFirst(d, name) ==
    IF d.dims = <<"date", "time_step">>
    THEN [ndim |-> 1,
          values |-> [i \in 1..Len(d.date) |-> d[name][i][1]],
          date |-> d.date]
    ELSE [ndim |-> 0, values |-> d[name][1], date |-> d.date[1]]

IselLast(d, name) ==
    IF d.dims = <<"date", "time_step">>
    THEN [ndim |-> 1,
          values |-> [i \in 1..Len(d.date) |-> d[name][i][d.time_step]],
          date |-> d.date]
    ELSE [ndim |-> 0,
          values |-> d[name][d.time_step],
          date |-> d.date[d.time_step]]

\* pd.DataFrame({...}) of lines 105-109: three zero-dimensional arrays are
\* all scalars, which pandas refuses without an index.
DataFrameRaises(obs, sim) == obs.ndim = 0 /\ sim.ndim = 0

DataFrame(obs, sim) ==
    [date |-> obs.date, Observed |-> obs.values, Simulated |-> sim.values]

\* Lines 101-109 as one evaluation: [ok, ds, df] or [ok, msg].
LoadSeries(store, gid) ==
    IF gid \notin DOMAIN store THEN [ok |-> FALSE, msg |-> KeyErrorText(gid)]
    ELSE IF "1D" \notin DOMAIN store[gid] THEN [ok |-> FALSE, msg |-> KeyErrorText("1D")]
    ELSE IF "xr" \notin DOMAIN store[gid]["1D"] THEN [ok |-> FALSE, msg |-> KeyErrorText("xr")]
    ELSE LET d == store[gid]["1D"]["xr"] IN
         IF ~HasVar(d, "flow_mm_d_obs")
            THEN [ok |-> FALSE, ds |-> d, msg |-> KeyErrorText("flow_mm_d_obs")]
         ELSE IF IselRaises(d)
            THEN [ok |-> FALSE, ds |-> d,
                  msg |-> IndexErrorText(IF Len(d.dims) = 2 THEN "1" ELSE "0")]
         ELSE IF ~HasVar(d, "flow_mm_d_sim")
            THEN [ok |-> FALSE, ds |-> d, msg |-> KeyErrorText("flow_mm_d_sim")]
         ELSE LET obs == IselLast(d, "flow_mm_d_obs")
                  sim == IselLast(d, "flow_mm_d_sim")
              IN IF DataFrameRaises(obs, sim)
                    THEN [ok |-> FALSE, ds |-> d, msg |-> ScalarValuesText]
                 ELSE [ok |-> TRUE, ds |-> d, df |-> DataFrame(obs, sim)]

----------------------------------------------------------------------------
(* pyplot *)

\* fig_ is a reference to a Figure object; the model names a figure by a
\* number, and a new figure takes the least number no open figure has.
FreshNum(g) ==
    CHOOSE n \in 1..(Len(g) + 1) :
        /\ \A i \in 1..Len(g) : g[i].num # n
        /\ \A m \in 1..(n - 1) : \E i \in 1..Len(g) : g[i].num = m

NewFigure(n) ==
    [num |-> n, lines |-> <<>>, title |-> "", xlabel |-> "", ylabel |-> "",
     legend |-> FALSE, tight |-> FALSE]

\* plt.subplots(figsize=(8, 8)): the new figure becomes the active one.
subplots(g) == Append(g, NewFigure(FreshNum(g)))

\* plt.gcf(): the active figure is the last of the registry.
gcf(g) == g[Len(g)]

\* The position of figure number n in the registry.
IndexOf(g, n) == CHOOSE i \in 1..Len(g) : g[i].num = n

\* ax.plot(x, y, ...) converts y to floats; a column that mixes strings and
\* numbers cannot be converted (TypeError from the category converter when
\* the first value is a string).
PlotRaises(y) ==
    /\ \E i \in 1..Len(y) : IsStr(y[i])
    /\ \E i \in 1..Len(y) : IsNum(y[i])

\* The category converter is chosen, and rejects the numbers, when the first
\* value is a string; otherwise the float conversion rejects the string.
PlotErrorText(y) == IF IsStr(y[1]) THEN CategoryTypeText ELSE FloatConversionText

Line(x, y, label, color) == [x |-> x, y |-> y, label |-> label, color |-> color]

\* ax.plot on the axes of figure n.
AddLine(g, n, line) ==
    [g EXCEPT ![IndexOf(g, n)].lines = Append(@, line)]

\* Line 114: ax.set_title(f'Streamflow at Gauge {gauge_id}'); the title is
\* kept as the gauge id it names.
set_title(g, n, gid) == [g EXCEPT ![IndexOf(g, n)].title = gid]

\* Line 115: ax.set_xlabel('Date')
set_xlabel(g, n) == [g EXCEPT ![IndexOf(g, n)].xlabel = "Date"]

\* Line 116: ax.set_ylabel('Flow (mm/day)')
set_ylabel(g, n) == [g EXCEPT ![IndexOf(g, n)].ylabel = "Flow (mm/day)"]

\* Line 117: ax.legend()
legend(g, n) == [g EXCEPT ![IndexOf(g, n)].legend = TRUE]

\* plt.tight_layout() acts on the active figure.
tight_layout(g) == [g EXCEPT ![Len(g)].tight = TRUE]

\* plt.close(fig_): the figure leaves the registry; the order of the
\* others, and so the active one among them, is kept.
close(g, n) == SelectSeq(g, LAMBDA f : f.num # n)

----------------------------------------------------------------------------
(* plt.savefig(buf, format="png") and base64.b64encode *)

PNGSignature == <<137, 80, 78, 71, 13, 10, 26, 10>>

RECURSIVE Flatten(_)
Flatten(ss) == IF ss = <<>> THEN <<>> ELSE Head(ss) \o Flatten(Tail(ss))

ByteOf(v) == IF IsNum(v) THEN v.num % 256 ELSE 255

\* The title text as bytes: one byte per known gauge, none for no title.
TitleBytes(title) ==
    CASE title = "01AD002" -> <<1>>
      [] title = "05BB001" -> <<2>>
      [] title = "08MF005" -> <<3>>
      [] OTHER -> <<>>

\* The raster is abstracted to a byte string determined by what the figure
\* holds: its lines (length and y values), title, axis labels, legend and
\* layout.
Raster(f) ==
    <<Len(f.lines)>>
    \o Flatten([k \in 1..Len(f.lines) |->
                  <<Len(f.lines[k].y)>>
                  \o [i \in 1..Len(f.lines[k].y) |-> ByteOf(f.lines[k].y[i])]])
    \o TitleBytes(f.title)
    \o <<(IF f.xlabel # "" THEN 8 ELSE 0) + (IF f.ylabel # "" THEN 4 ELSE 0)
         + (IF f.legend THEN 2 ELSE 0) + (IF f.tight THEN 1 ELSE 0)>>

\* What savefig writes into buf for figure f.
PngBytes(f) == PNGSignature \o Raster(f)

B64Alphabet ==
    << "A","B","C","D","E","F","G","H","I","J","K","L","M","N","O","P",
       "Q","R","S","T","U","V","W","X","Y","Z","a","b","c","d","e","f",
       "g","h","i","j","k","l","m","n","o","p","q","r","s","t","u","v",
       "w","x","y","z","0","1","2","3","4","5","6","7","8","9","+","/" >>

B64Char(n) == B64Alphabet[n + 1]

\* RFC 4648: three bytes give four characters; one or two trailing bytes are
\* padded with "=".
RECURSIVE b64encode(_)
b64encode(b) ==
    IF Len(b) = 0 THEN <<>>
    ELSE IF Len(b) = 1 THEN
        << B64Char(b[1] \div 4), B64Char((b[1] % 4) * 16), "=", "=" >>
    ELSE IF Len(b) = 2 THEN
        << B64Char(b[1] \div 4), B64Char((b[1] % 4) * 16 + b[2] \div 16),
           B64Char((b[2] % 16) * 4), "=" >>
    ELSE
        << B64Char(b[1] \div 4), B64Char((b[1] % 4) * 16 + b[2] \div 16),
           B64Char((b[2] % 16) * 4 + b[3] \div 64), B64Char(b[3] % 64) >>
        \o b64encode(SubSeq(b, 4, Len(b)))

\* html.Img(src=f"data:image/png;base64,{encoded}")
ImgFragment(bytes) == Img(<<"data:image/png;base64,">> \o b64encode(bytes))

----------------------------------------------------------------------------
(* Inputs *)

\* The server threads that run update_plot.
Workers == {"w1", "w2"}

GaugeIds == {"01AD002", "05BB001", "08MF005"}

Day(d) == Num(18262 + d)

\* A daily dataset over (date, time_step) with nd dates and ns steps; every
\* cell holds a different number.
Dataset(nd, ns) ==
    [dims |-> <<"date", "time_step">>,
     time_step |-> ns,
     date |-> [d \in 1..nd |-> Day(d)],
     flow_mm_d_obs |-> [d \in 1..nd |-> [k \in 1..ns |-> Num(10 * d + k)]],
     flow_mm_d_sim |-> [d \in 1..nd |-> [k \in 1..ns |-> Num(100 + 10 * d + k)]]]

\* The same with a text marker in place of the last step of the first date
\* of one flow variable.
WithMarker(d, name) == [d EXCEPT ![name][1][d.time_step] = Str("n/a")]

\* A dataset over time_step alone, date being a coordinate along it.
StepDataset(ns) ==
    [dims |-> <<"time_step">>,
     time_step |-> ns,
     date |-> [k \in 1..ns |-> Day(k)],
     flow_mm_d_obs |-> [k \in 1..ns |-> Num(10 + k)],
     flow_mm_d_sim |-> [k \in 1..ns |-> Num(110 + k)]]

\* A dataset without one of the flow variables.
Without(d, name) == [f \in DOMAIN d \ {name} |-> d[f]]

DatasetDomain ==
    { Dataset(nd, ns) : nd \in {0, 1, MaxDates}, ns \in {0, 1, MaxSteps} }
    \cup { WithMarker(Dataset(MaxDates, MaxSteps), v) :
             v \in {"flow_mm_d_obs", "flow_mm_d_sim"} }
    \cup { StepDataset(ns) : ns \in {0, 1, MaxSteps} }
    \cup { Without(Dataset(1, 1), v) : v \in {"flow_mm_d_obs", "flow_mm_d_sim"} }

Entry(d) == "1D" :> ("xr" :> d)
HourlyEntry(d) == "1h" :> ("xr" :> d)

EntryDomain == { Entry(d) : d \in DatasetDomain } \cup { HourlyEntry(Dataset(1, 1)) }

\* Stores: gauge 01AD002 always has a two-date daily dataset, gauge 05BB001
\* any entry of the domain, gauge 08MF005 none.
StoreDomain ==
    { ("01AD002" :> Entry(Dataset(2, 1))) @@ ("05BB001" :> e) : e \in EntryDomain }

\* The store served when the station table is the input under study.
SmallStore == "01AD002" :> Entry(Dataset(2, 1))

ScoreDomain ==
    { NaN } \cup { Score(v) : v \in {-10, 49, 50, 51, 69, 70, 71, 79, 80, 81, 100} }

Row(gid, s) == [gauge_id |-> gid, casr_daymet_era5_NSE |-> s]

GaugeAt(i) == IF i % 3 = 1 THEN "01AD002" ELSE IF i % 3 = 2 THEN "05BB001" ELSE "08MF005"

\* Station tables of up to MaxRows rows, every score of the domain in every row.
TableDomain ==
    UNION { { [i \in 1..n |-> Row(GaugeAt(i), f[i])] : f \in [1..n -> ScoreDomain] }
            : n \in 0..MaxRows }

SmallTable == << Row("01AD002", Score(81)), Row("05BB001", Score(50)) >>

ClickDomain ==
    { None, EmptyDict, Click(<<>>), Click(<<BarePoint>>) }
    \cup { Click(<<Point(g, Score(50))>>) : g \in GaugeIds }

Remote(r1, r2) == (MERGED_DF_FILE_ID :> r1) @@ (RESULTS_FILE_ID :> r2)

\* Downloads that fail: no connection, an error status (with or without a
\* well-formed body), an empty 204, a 200 whose body is no pickle.
FailureDomain ==
    { [status |-> 0], Response(404, Garbage(HtmlBody)), Response(500, Pickled(<<>>)),
      Response(204, Garbage(EmptyBody)) }
    \cup { Response(200, Garbage(b)) : b \in {HtmlBody, GlobalBody, IntBody} }

----------------------------------------------------------------------------
(* Initial states *)

InitRest ==
    /\ main = "load_merged"
    /\ exc = NoExc
    /\ gets = (MERGED_DF_FILE_ID :> 0) @@ (RESULTS_FILE_ID :> 0)
    /\ merged_df = None
    /\ results = None
    /\ fig = None
    /\ pc = [t \in Workers |-> "idle"]
    /\ clickData = [t \in Workers |-> None]
    /\ gauge_id = [t \in Workers |-> None]
    /\ ds = [t \in Workers |-> None]
    /\ df = [t \in Workers |-> None]
    /\ fig_ = [t \in Workers |-> 0]
    /\ buf = [t \in Workers |-> <<>>]
    /\ ret = [t \in Workers |-> None]
    /\ Gcf = <<>>

\* The process with a small station table and any store of the domain, or
\* with a download that fails.
Init ==
    /\ remote \in
         { Remote(Response(200, Pickled(SmallTable)), Response(200, Pickled(st))) :
             st \in StoreDomain }
         \cup { Remote(Response(200, Pickled(SmallTable)), r) : r \in FailureDomain }
         \cup { Remote(r, Response(200, Pickled(SmallStore))) : r \in FailureDomain }
    /\ InitRest

\* The module body alone, with every station table of the domain.
StartupInit ==
    /\ remote \in
         { Remote(Response(200, Pickled(tb)),
                  Response(200, Pickled(SmallStore))) :
             tb \in TableDomain }
         \cup { Remote(r1, r2) : r1 \in FailureDomain \cup {Response(200, Pickled(SmallTable))},
                                r2 \in FailureDomain }
    /\ InitRest

----------------------------------------------------------------------------
(* The module body, lines 18-87 and 129-131 *)

\* Line 23: merged_df = download_pickle_from_gdrive(MERGED_DF_FILE_ID)
LoadMerged ==
    /\ main = "load_merged"
    /\ gets' = [gets EXCEPT ![MERGED_DF_FILE_ID] = @ + 1]
    /\ LET r == download_pickle_from_gdrive(remote[MERGED_DF_FILE_ID]) IN
         IF r.ok
         THEN /\ merged_df' = r.value
              /\ main' = "load_results"
              /\ exc' = exc
         ELSE /\ merged_df' = merged_df
              /\ main' = "crashed"
              /\ exc' = r.exc
    /\ UNCHANGED <<remote, results, fig, locals, Gcf>>

\* Mutant: a failed download of the results is swallowed and the module body
\* goes on with an empty store.
LoadResultsSwallowed ==
    /\ main = "load_results"
    /\ gets' = [gets EXCEPT ![RESULTS_FILE_ID] = @ + 1]
    /\ LET r == download_pickle_from_gdrive(remote[RESULTS_FILE_ID]) IN
         results' = IF r.ok THEN r.value ELSE EmptyDict
    /\ main' = "prepare"
    /\ UNCHANGED <<remote, exc, merged_df, fig, locals, Gcf>>

\* Line 26: results = download_pickle_from_gdrive(RESULTS_FILE_ID)
LoadResults ==
    /\ main = "load_results"
    /\ gets' = [gets EXCEPT ![RESULTS_FILE_ID] = @ + 1]
    /\ LET r == download_pickle_from_gdrive(remote[RESULTS_FILE_ID]) IN
         IF r.ok
         THEN /\ results' = r.value
              /\ main' = "prepare"
              /\ exc' = exc
         ELSE /\ results' = results
              /\ main' = "crashed"
              /\ exc' = r.exc
    /\ UNCHANGED <<remote, merged_df, fig, locals, Gcf>>

\* Lines 29-32: the NSE column.
Prepare ==
    /\ main = "prepare"
    /\ merged_df' = AddNSE(merged_df)
    /\ main' = "build"
    /\ UNCHANGED <<remote, exc, gets, results, fig, locals, Gcf>>

\* Lines 35-87: the app, the map figure and the layout.
BuildMap ==
    /\ main = "build"
    /\ fig' = scatter_mapbox(merged_df)
    /\ main' = "run"
    /\ UNCHANGED <<remote, exc, gets, merged_df, results, locals, Gcf>>

\* Lines 130-131: app.run_server(...) starts accepting requests.
RunServer ==
    /\ main = "run"
    /\ main' = "serving"
    /\ UNCHANGED <<remote, exc, gets, merged_df, results, fig, locals, Gcf>>

----------------------------------------------------------------------------
(* update_plot, lines 94-127, on worker thread t *)

\* The call ends: the fragment (or the exception) goes back to Dash.
Return(t, value) ==
    /\ ret' = [ret EXCEPT ![t] = value]
    /\ pc' = [pc EXCEPT ![t] = "done"]

\* Lines 95-109: a request arrives with clickData = c; everything up to the
\* DataFrame reads only the argument and the read-only store.
Receive(t, c) ==
    /\ main = "serving"
    /\ pc[t] \in {"idle", "done"}
    /\ clickData' = [clickData EXCEPT ![t] = c]
    /\ fig_' = [fig_ EXCEPT ![t] = 0]
    /\ buf' = [buf EXCEPT ![t] = <<>>]
    /\ IF Falsy(c)
       THEN /\ Return(t, Placeholder)
            /\ gauge_id' = [gauge_id EXCEPT ![t] = None]
            /\ ds' = [ds EXCEPT ![t] = None]
            /\ df' = [df EXCEPT ![t] = None]
       ELSE LET id == ExtractGaugeId(c) IN
            IF ~id.ok
            THEN /\ Return(t, Raised(id.exc))
                 /\ gauge_id' = [gauge_id EXCEPT ![t] = None]
                 /\ ds' = [ds EXCEPT ![t] = None]
                 /\ df' = [df EXCEPT ![t] = None]
            ELSE LET r == LoadSeries(results, id.value) IN
                 /\ gauge_id' = [gauge_id EXCEPT ![t] = id.value]
                 /\ ds' = [ds EXCEPT ![t] = IF "ds" \in DOMAIN r THEN r.ds ELSE None]
                 /\ IF r.ok
                    THEN /\ df' = [df EXCEPT ![t] = r.df]
                         /\ pc' = [pc EXCEPT ![t] = "subplots"]
                         /\ ret' = [ret EXCEPT ![t] = None]
                    ELSE /\ df' = [df EXCEPT ![t] = None]
                         /\ Return(t, ErrorFragment(id.value, r.msg))
    /\ UNCHANGED <<globals, Gcf>>

\* Line 111: fig_, ax = plt.subplots(figsize=(8, 8))
Subplots(t) ==
    /\ pc[t] = "subplots"
    /\ Len(Gcf) < MaxFigs
    /\ Gcf' = subplots(Gcf)
    /\ fig_' = [fig_ EXCEPT ![t] = FreshNum(Gcf)]
    /\ pc' = [pc EXCEPT ![t] = "plot_obs"]
    /\ UNCHANGED <<globals, clickData, gauge_id, ds, df, buf, ret>>

\* One ax.plot call of column col: the line is added to the thread's own
\* axes, or the call raises and the except clause returns the error text.
Plot(t, col, label, color, next) ==
    IF PlotRaises(df[t][col])
    THEN /\ Return(t, ErrorFragment(gauge_id[t], PlotErrorText(df[t][col])))
         /\ Gcf' = Gcf
    ELSE /\ Gcf' = AddLine(Gcf, fig_[t], Line(df[t].date, df[t][col], label, color))
         /\ pc' = [pc EXCEPT ![t] = next]
         /\ ret' = ret

\* Line 112
PlotObs(t) ==
    /\ pc[t] = "plot_obs"
    /\ Plot(t, "Observed", "Observed", "black", "plot_sim")
    /\ UNCHANGED <<globals, clickData, gauge_id, ds, df, fig_, buf>>

\* Line 113
PlotSim(t) ==
    /\ pc[t] = "plot_sim"
    /\ Plot(t, "Simulated", "Simulated", "blue", "set_title")
    /\ UNCHANGED <<globals, clickData, gauge_id, ds, df, fig_, buf>>

\* Line 114
SetTitle(t) ==
    /\ pc[t] = "set_title"
    /\ Gcf' = set_title(Gcf, fig_[t], gauge_id[t])
    /\ pc' = [pc EXCEPT ![t] = "set_xlabel"]
    /\ UNCHANGED <<globals, clickData, gauge_id, ds, df, fig_, buf, ret>>

\* Line 115
SetXLabel(t) ==
    /\ pc[t] = "set_xlabel"
    /\ Gcf' = set_xlabel(Gcf, fig_[t])
    /\ pc' = [pc EXCEPT ![t] = "set_ylabel"]
    /\ UNCHANGED <<globals, clickData, gauge_id, ds, df, fig_, buf, ret>>

\* Line 116
SetYLabel(t) ==
    /\ pc[t] = "set_ylabel"
    /\ Gcf' = set_ylabel(Gcf, fig_[t])
    /\ pc' = [pc EXCEPT ![t] = "legend"]
    /\ UNCHANGED <<globals, clickData, gauge_id, ds, df, fig_, buf, ret>>

\* Line 117
Legend(t) ==
    /\ pc[t] = "legend"
    /\ Gcf' = legend(Gcf, fig_[t])
    /\ pc' = [pc EXCEPT ![t] = "tight_layout"]
    /\ UNCHANGED <<globals, clickData, gauge_id, ds, df, fig_, buf, ret>>

\* Line 118: plt.tight_layout()
TightLayout(t) ==
    /\ pc[t] = "tight_layout"
    /\ Gcf' = tight_layout(Gcf)
    /\ pc' = [pc EXCEPT ![t] = "savefig"]
    /\ UNCHANGED <<globals, clickData, gauge_id, ds, df, fig_, buf, ret>>

\* Lines 120-121: buf = io.BytesIO(); plt.savefig(buf, format="png")
SaveFig(t) ==
    /\ pc[t] = "savefig"
    /\ buf' = [buf EXCEPT ![t] = PngBytes(gcf(Gcf))]
    /\ pc' = [pc EXCEPT ![t] = "close"]
    /\ UNCHANGED <<globals, clickData, gauge_id, ds, df, fig_, ret, Gcf>>

\* Lines 122-124: plt.close(fig_), encode, return the image fragment.
Close(t) ==
    /\ pc[t] = "close"
    /\ Gcf' = close(Gcf, fig_[t])
    /\ Return(t, ImgFragment(buf[t]))
    /\ UNCHANGED <<globals, clickData, gauge_id, ds, df, fig_, buf>>

----------------------------------------------------------------------------
(* Specifications *)

StartupNext ==
    \/ LoadMerged
    \/ LoadResults
    \/ Prepare
    \/ BuildMap
    \/ RunServer

Handle(t) ==
    \/ \E c \in ClickDomain : Receive(t, c)
    \/ Subplots(t)
    \/ PlotObs(t)
    \/ PlotSim(t)
    \/ SetTitle(t)
    \/ SetXLabel(t)
    \/ SetYLabel(t)
    \/ Legend(t)
    \/ TightLayout(t)
    \/ SaveFig(t)
    \/ Close(t)

Next ==
    \/ StartupNext
    \/ \E t \in Workers : Handle(t)

\* The whole process: the module body, then concurrent update_plot calls.
Spec == Init /\ [][Next]_vars

\* The module body alone, over every station table of the domain.
StartupSpec == StartupInit /\ [][StartupNext]_vars

----------------------------------------------------------------------------
(* Properties *)

Labels == {NotSatisfactory, Satisfactory, Good, VeryGood}

Prepared == main \in {"build", "run", "serving"}
Built == main \in {"run", "serving"}

ScoreOf(row) == row.casr_daymet_era5_NSE

\* C1: once the NSE column is derived, every row carries exactly one of the
\* four labels, and a numeric score s has Not Satisfactory iff s <= 0.5,
\* Satisfactory iff 0.5 < s <= 0.7, Good iff 0.7 < s <= 0.8 and Very Good
\* iff s > 0.8, so the boundary scores fall into the lower bucket; rows with
\* equal scores carry equal labels.
C1_CategoryBuckets ==
    Prepared =>
        \A i \in 1..Len(merged_df) :
            LET s == ScoreOf(merged_df[i])
                l == merged_df[i].NSE
            IN /\ l \in Labels
               /\ s.kind = "num" =>
                    /\ (l = NotSatisfactory) <=> (s.v <= 50)
                    /\ (l = Satisfactory) <=> (50 < s.v /\ s.v <= 70)
                    /\ (l = Good) <=> (70 < s.v /\ s.v <= 80)
                    /\ (l = VeryGood) <=> (s.v > 80)
               /\ \A j \in 1..Len(merged_df) :
                    ScoreOf(merged_df[j]) = s => merged_df[j].NSE = l

\* Witness of C1: a prepared table holding the boundary scores 0.5 and 0.7.
C1_Witness ==
    /\ Prepared
    /\ \E i, j \in 1..Len(merged_df) :
         /\ ScoreOf(merged_df[i]) = Score(50)
         /\ ScoreOf(merged_df[j]) = Score(70)

PaletteOf(label) ==
    CASE label = NotSatisfactory -> "red"
      [] label = Satisfactory -> "yellow"
      [] label = Good -> "lightgreen"
      [] label = VeryGood -> "green"

\* C7: the map figure has as many points as the station table has rows,
\* every row is a point, and every point has the palette colour of the
\* category label of its row.
C7_MapPoints ==
    Built =>
        /\ PointCount(fig) = Len(merged_df)
        /\ \A i \in 1..Len(merged_df) :
             \E k \in 1..Len(fig.data) : \E p \in 1..Len(fig.data[k].customdata) :
                /\ fig.data[k].customdata[p] = <<merged_df[i].gauge_id, ScoreOf(merged_df[i])>>
                /\ fig.data[k].color = PaletteOf(merged_df[i].NSE)
        /\ \A k \in 1..Len(fig.data) :
             /\ fig.data[k].color \in {"red", "yellow", "lightgreen", "green"}
             /\ \A p \in 1..Len(fig.data[k].customdata) :
                  \E i \in 1..Len(merged_df) :
                     /\ fig.data[k].customdata[p] = <<merged_df[i].gauge_id, ScoreOf(merged_df[i])>>
                     /\ fig.data[k].color = PaletteOf(merged_df[i].NSE)

\* Witness of C7: a built map over two rows of different categories, one of
\* them Good.
C7_Witness ==
    /\ Built
    /\ Len(merged_df) = 2
    /\ merged_df[1].NSE = Good
    /\ merged_df[2].NSE # Good

Succeeds(resp) == resp.status = 200 /\ "pickle" \in DOMAIN resp.content

Active(t) == pc[t] # "idle"

\* C8: requests are served only after both downloads succeeded, each with a
\* single GET, and the NSE column was derived; when either download fails
\* the module body ends with that exception, no GET is repeated, and the
\* process never serves.
C8_ServeAfterLoad ==
    /\ (main = "serving" \/ \E t \in Workers : Active(t)) =>
          /\ main = "serving"
          /\ Succeeds(remote[MERGED_DF_FILE_ID])
          /\ Succeeds(remote[RESULTS_FILE_ID])
          /\ results = remote[RESULTS_FILE_ID].content.pickle
          /\ gets[MERGED_DF_FILE_ID] = 1 /\ gets[RESULTS_FILE_ID] = 1
          /\ \A i \in 1..Len(merged_df) : "NSE" \in DOMAIN merged_df[i]
          /\ Len(merged_df) = Len(remote[MERGED_DF_FILE_ID].content.pickle)
    /\ (~Succeeds(remote[MERGED_DF_FILE_ID]) \/ ~Succeeds(remote[RESULTS_FILE_ID])) =>
          /\ main # "serving"
          /\ \A t \in Workers : ~Active(t)
          /\ gets[MERGED_DF_FILE_ID] <= 1 /\ gets[RESULTS_FILE_ID] <= 1
          /\ (main \notin {"load_merged", "load_results"}) => (main = "crashed" /\ exc # NoExc)

\* Witness of C8: the server is up and a request has been answered.
C8_Witness ==
    /\ main = "serving"
    /\ \E t \in Workers : pc[t] = "done"

\* The station identifier a click event carries.
HasId(c) == ~Falsy(c) /\ "points" \in DOMAIN c /\ Len(c.points) > 0
            /\ "customdata" \in DOMAIN c.points[1]
IdOf(c) == c.points[1].customdata[1]

Contains(text, word) == \E i \in 1..Len(text) : text[i] = word

\* C2: a call with a non-null click event never ends with an exception; it
\* returns an image or an error fragment.
C2_NoExceptionEscapes ==
    \A t \in Workers :
        (pc[t] = "done" /\ ~Falsy(clickData[t])) => ret[t].tag \in {"Img", "Div"}

\* C3: a click on a station that is no key of the Results Store returns an
\* error fragment, neither image nor placeholder, whose text contains the
\* identifier.
C3_AbsentStation ==
    \A t \in Workers :
        (pc[t] = "done" /\ HasId(clickData[t]) /\ IdOf(clickData[t]) \notin DOMAIN results) =>
            /\ ret[t].tag = "Div"
            /\ ret[t] # Placeholder
            /\ Contains(ret[t].children, IdOf(clickData[t]))

\* Witness of C3: a finished call for the gauge the store never holds.
C3_Witness ==
    \E t \in Workers :
        /\ pc[t] = "done"
        /\ HasId(clickData[t])
        /\ IdOf(clickData[t]) = "08MF005"
        /\ "08MF005" \notin DOMAIN results

\* The daily dataset of a clicked station, when the store holds one.
HasDaily(c) ==
    /\ HasId(c)
    /\ IdOf(c) \in DOMAIN results
    /\ "1D" \in DOMAIN results[IdOf(c)]
DailyOf(c) == results[IdOf(c)]["1D"]["xr"]

BothFlows(d) == {"flow_mm_d_obs", "flow_mm_d_sim"} \subseteq DOMAIN d

\* C4 as stated: a station with at least one daily time step gives an image
\* with a non-empty payload, and the plotted table has exactly one row.
C4_SingleRow ==
    \A t \in Workers :
        (pc[t] = "done" /\ HasDaily(clickData[t])
           /\ BothFlows(DailyOf(clickData[t]))
           /\ DailyOf(clickData[t]).time_step >= 1) =>
            /\ ret[t].tag = "Img"
            /\ Len(ret[t].src) > 1
            /\ df[t] # None
            /\ Len(df[t].date) = 1

AllNumbers(col) == \A i \in 1..Len(col) : IsNum(col[i])

\* C4 amended: for a station whose daily dataset holds both flows over
\* (date, time_step) with at least one time step, the plotted table has one
\* row per date of the dataset, each with that date and the observed and
\* simulated values of its final time step; when every value is a number
\* the call returns an image fragment with a non-empty base64 payload.
C4_RowPerDate ==
    \A t \in Workers :
        (Active(t) /\ HasDaily(clickData[t])
           /\ BothFlows(DailyOf(clickData[t]))
           /\ DailyOf(clickData[t]).dims = <<"date", "time_step">>
           /\ DailyOf(clickData[t]).time_step >= 1) =>
            LET d == DailyOf(clickData[t])
                last == d.time_step
            IN /\ df[t] # None
               /\ Len(df[t].date) = Len(d.date)
               /\ Len(df[t].Observed) = Len(d.date)
               /\ Len(df[t].Simulated) = Len(d.date)
               /\ \A i \in 1..Len(d.date) :
                    /\ df[t].date[i] = d.date[i]
                    /\ df[t].Observed[i] = d.flow_mm_d_obs[i][last]
                    /\ df[t].Simulated[i] = d.flow_mm_d_sim[i][last]
               /\ (pc[t] = "done" /\ AllNumbers(df[t].Observed) /\ AllNumbers(df[t].Simulated)) =>
                    /\ ret[t].tag = "Img"
                    /\ Len(ret[t].src) > 1
                    /\ ret[t].src[1] = "data:image/png;base64,"

\* Witness of C4: an image returned for a station with two dates of two
\* time steps each.
C4_Witness ==
    \E t \in Workers :
        /\ pc[t] = "done"
        /\ HasDaily(clickData[t])
        /\ BothFlows(DailyOf(clickData[t]))
        /\ DailyOf(clickData[t]).dims = <<"date", "time_step">>
        /\ Len(DailyOf(clickData[t]).date) = 2
        /\ DailyOf(clickData[t]).time_step = 2
        /\ ret[t].tag = "Img"
        /\ Len(df[t].date) = 2

\* C5: a null or empty click event returns the fixed placeholder, whatever
\* the datasets hold and whatever was handled before, and the call binds no
\* dataset of the Results Store.
C5_IdlePlaceholder ==
    \A t \in Workers :
        (pc[t] = "done" /\ clickData[t] \in {None, EmptyDict}) =>
            /\ ret[t] = Div(<<"Click a gauge on the map to view the streamflow.">>)
            /\ ds[t] = None
            /\ df[t] = None
            /\ fig_[t] = 0

\* Witness of C5: an empty click event answered after another call left a
\* figure open.
C5_Witness ==
    \E t \in Workers :
        /\ pc[t] = "done"
        /\ clickData[t] = EmptyDict
        /\ Len(Gcf) > 0

\* C6: two finished calls with the same click event have the same output.
C6_SameClickSameOutput ==
    \A t, u \in Workers :
        (pc[t] = "done" /\ pc[u] = "done" /\ clickData[t] = clickData[u]) => ret[t] = ret[u]

\* The figure a call created, while it is open.
OwnFigure(t) == Gcf[IndexOf(Gcf, fig_[t])]

\* C9: under every interleaving the image a call saved is the rendering of
\* the figure that call created.
C9_SavesOwnFigure ==
    \A t \in Workers : pc[t] = "close" => buf[t] = PngBytes(OwnFigure(t))

Quiescent == \A t \in Workers : pc[t] \in {"idle", "done"}

\* C10: when no call is running the process holds what it held before the
\* first call: the datasets as prepared at startup and no open figure.
C10_NoStateLeft ==
    (main = "serving" /\ Quiescent) =>
        /\ Gcf = <<>>
        /\ results = remote[RESULTS_FILE_ID].content.pickle
        /\ merged_df = AddNSE(remote[MERGED_DF_FILE_ID].content.pickle)

====
